---- MODULE Spec2Model ----
(***************************************************************************)
(* JustDictate dictation engine (src/dictation_engine.py) with the two    *)
(* menu callbacks of src/just_dictate.py that reach into it.               *)
(*                                                                         *)
(* Execution contexts:                                                     *)
(*   - the pynput listener thread runs _on_press / _on_release, one whole  *)
(*     handler at a time (KeyPress, KeyRelease);                           *)
(*   - the sounddevice callback thread appends chunks while a stream is    *)
(*     started (AudioCallback);                                            *)
(*   - one daemon thread per chord release runs _transcribe_and_type; it   *)
(*     is modelled statement group by statement group (thread[r].pc), so   *)
(*     that the other contexts interleave with it;                         *)
(*   - the UI thread runs the menu callbacks: _change_hotkey in the steps  *)
(*     between which the listener can run (ChangeHotkey, ChangeHotkeyStop, *)
(*     ChangeHotkeyRestart), and ToggleTrailingSpace.                      *)
(* Time is the wall clock read by time.time(); Tick moves it forward.      *)
(*                                                                         *)
(* Four specifications put the engine into four environments:              *)
(*   Spec       either chord, the chord keys and Escape, one clock         *)
(*              instant;                                                   *)
(*   SpecPaste  the default chord, Escape by name and by key code, an      *)
(*              unmapped key, the clock running, pbpaste that may fail;    *)
(*   SpecUI     the engine as the application constructs it, every key,    *)
(*              and the hotkey menu;                                       *)
(*   SpecToggle the default chord and the trailing-space menu item.        *)
(***************************************************************************)
EXTENDS Integers, Sequences, FiniteSets, TLC

\* ---------------------------------------------------------------- bounds
\* Number of recordings a behaviour may start.
MaxRecordings == 2
\* Number of chunks the audio callback delivers into one list.
MaxChunks == 3

\* ------------------------------------------------------------- constants
VK_RIGHT_CMD == 54
VK_ESCAPE == 53
VK_ALT_R == 61
VK_CTRL_L == 59
VK_ALT_L == 58
UNDO_WINDOW == 5
SAMPLERATE == 16000
BLOCKSIZE == 1600
\* Python's None, for the optional fields and for a key without a vk.
None == -1

\* The instants at which the wall clock is observed (seconds).
Instants == {0, UNDO_WINDOW - 1, UNDO_WINDOW}

RecIds == 1..MaxRecordings

\* config_manager.HOTKEY_PRESETS, vk_codes only.
HOTKEY_PRESETS ==
    [right_cmd |-> {VK_RIGHT_CMD},
     right_alt |-> {VK_ALT_R},
     left_ctrl_left_alt |-> {VK_CTRL_L, VK_ALT_L}]

\* config_manager.get_hotkey_preset: unknown names fall back to right_cmd.
get_hotkey_preset(name) ==
    IF name \in DOMAIN HOTKEY_PRESETS THEN HOTKEY_PRESETS[name]
    ELSE HOTKEY_PRESETS["right_cmd"]

\* The hotkey menu entries the user picks among.
HotkeyChoices == {"right_cmd", "left_ctrl_left_alt"}

\* pynput key objects: a KeyCode carries vk, a Key member does not.
KeyObjects ==
    {[name |-> "cmd_r", vk |-> None],
     [name |-> "ctrl_l", vk |-> None],
     [name |-> "alt_l", vk |-> None],
     [name |-> "esc", vk |-> None],
     [name |-> "shift_l", vk |-> None],
     [name |-> "code", vk |-> VK_ESCAPE]}

\* DictationEngine._get_vk
vk_map ==
    [cmd_r |-> VK_RIGHT_CMD, alt_r |-> VK_ALT_R, ctrl_l |-> VK_CTRL_L,
     alt_l |-> VK_ALT_L, ctrl_r |-> 62, shift_r |-> 60]

get_vk(key) ==
    IF key.vk # None THEN key.vk
    ELSE IF key.name \in DOMAIN vk_map THEN vk_map[key.name]
    ELSE None

\* What the transcription backend may answer: a text, or an exception.
BackendTexts == {"", "hi"}

VARIABLES
    recording,              \* self._recording
    recording_start_time,   \* self._recording_start_time
    cancelled,              \* self._cancelled
    last_paste_time,        \* self._last_paste_time
    audio_chunks,           \* self._audio_chunks
    stream,                 \* self._stream: None, or the recording that opened it
    held_vk,                \* self._held_vk
    target_vk_codes,        \* self._target_vk_codes
    transcribe_fn,          \* self.transcribe_fn is not None
    config,                 \* the stored configuration (hotkey, add_trailing_space)
    clipboard,              \* the system clipboard
    now,                    \* time.time()
    thread,                 \* thread[r]: the _transcribe_and_type thread spawned when recording r stopped
    ui_pc,                  \* where the UI thread is inside _change_hotkey
    rec_count,              \* number of recordings started so far (the current one is rec_count)
    cancelled_recs,         \* history: the recordings that Escape cancelled
    fed_recs,               \* history: the recordings with a chunk in an audio buffer passed to the backend
    event,                  \* history: what the hotkey matcher decided in the last step
    actor,                  \* history: the transcription thread that took the last step, 0 when none did
    notes,                  \* history: what the last step did to the outside (notifications, keystrokes, backend)
    app                     \* the application's side of the callbacks: rec_note, the last of
                            \* recordingStarted and recordingStopped/recordingCancelled it was sent

vars == <<recording, recording_start_time, cancelled, last_paste_time, audio_chunks,
          stream, held_vk, target_vk_codes, transcribe_fn, config, clipboard, now,
          thread, ui_pc, rec_count, cancelled_recs, fed_recs, event, actor, notes,
          app>>

\* A thread's position and locals; pc = "none" when the thread does not exist
\* (not spawned yet, or ended). too_short is history, kept until the thread
\* is past its duration test: the recording whose stop spawned the thread had
\* captured less than 0.3 s of audio.
NoThread == [pc |-> "none", audio |-> <<>>, text |-> "", old_clip |-> "",
             too_short |-> FALSE]

\* Thread r was spawned and has not ended.
InFlight(r) == thread[r].pc # "none"

\* Thread r is past on_transcription_start: the backend call or the paste is
\* under way.
Transcribing(r) ==
    thread[r].pc \in {"transcribe", "paste_save", "paste_write", "paste_key",
                      "paste_restore", "arm"}

\* The session phase of the specification, read off the engine's state. A
\* thread that has not reached on_transcription_start yet (it may still find
\* the audio empty or too short) does not make the session Transcribing.
Phase ==
    IF recording THEN "Recording"
    ELSE IF \E r \in RecIds : Transcribing(r) THEN "Transcribing"
    ELSE "Idle"

\* len(np.concatenate(chunks)): every chunk is one block of BLOCKSIZE samples.
NumSamples(audio) == Len(audio) * BLOCKSIZE

\* duration < 0.3 with duration = len(audio) / 16000
TooShort(audio) == NumSamples(audio) * 10 < 3 * SAMPLERATE

\* The notifications on which the application hides the overlay:
\* _on_recording_cancel, _on_transcription_done and _on_error.
HideNotes ==
    {"recordingCancelled", "error"}
        \cup {"transcriptionDone:" \o text : text \in BackendTexts}
        \cup {"transcriptionDone:" \o text \o " " : text \in BackendTexts}

HidesOverlay(note) == note \in HideNotes

\* The recording callbacks of JustDictateApp, applied to what a step
\* reported: the last of _on_recording_start ("started") and
\* _on_recording_stop or _on_recording_cancel ("ended") the application was
\* called with.
Notified(a, n) ==
    IF n = <<>> THEN a
    ELSE [rec_note |->
             IF \E i \in 1..Len(n) : n[i] = "recordingStarted" THEN "started"
             ELSE IF \E i \in 1..Len(n) : n[i] \in {"recordingStopped", "recordingCancelled"}
             THEN "ended"
             ELSE a.rec_note]

Init ==
    /\ recording = FALSE
    /\ recording_start_time = None
    /\ cancelled = FALSE
    /\ last_paste_time = None
    /\ audio_chunks = <<>>
    /\ stream = None
    /\ held_vk = {}
    /\ config \in [hotkey : HotkeyChoices, add_trailing_space : {TRUE}]
    /\ target_vk_codes = get_hotkey_preset(config.hotkey)
    /\ transcribe_fn \in BOOLEAN
    /\ clipboard = "old"
    /\ now = 0
    /\ thread = [r \in RecIds |-> NoThread]
    /\ ui_pc = "idle"
    /\ rec_count = 0
    /\ cancelled_recs = {}
    /\ fed_recs = {}
    /\ actor = 0
    /\ event = "None"
    /\ notes = <<>>
    /\ app = [rec_note |-> "none"]


\* ------------------------------------------------ hotkey matcher decisions
\* _on_press, line 114
ShouldStart(rec, target, held) == ~rec /\ target \subseteq held

\* Mutant of ShouldStop: stop only once every chord key is released.
ShouldStop_AllReleased(rec, target, held) == rec /\ target \cap held = {}

\* _on_release, line 123
ShouldStop(rec, target, held) == rec /\ ~(target \subseteq held)

\* Mutant of UndoAllowed: the window includes its end point.
UndoAllowed_Inclusive(lpt, t) == lpt # None /\ (t - lpt) <= UNDO_WINDOW

\* _handle_escape, lines 174-177
UndoAllowed(lpt, t) == lpt # None /\ (t - lpt) < UNDO_WINDOW

\* ------------------------------------------------------ engine operations
\* _start_recording; the stream is opened by and for recording rec_count + 1.
\* sd.InputStream(...) may raise (no input device): the assignments before it
\* stay, nothing after it runs.
start_recording(device_ok) ==
    /\ recording' = TRUE
    /\ recording_start_time' = now
    /\ audio_chunks' = <<>>
    /\ rec_count' = rec_count + 1
    /\ stream' = IF device_ok THEN rec_count + 1 ELSE stream
    /\ notes' = IF device_ok THEN <<"recordingStarted">> ELSE <<>>
    /\ UNCHANGED <<cancelled, last_paste_time, cancelled_recs>>

\* _cancel_recording
cancel_recording ==
    /\ cancelled' = TRUE
    /\ recording' = FALSE
    /\ recording_start_time' = None
    /\ stream' = None
    /\ audio_chunks' = <<>>
    /\ cancelled_recs' = cancelled_recs \cup {rec_count}
    /\ notes' = <<"recordingCancelled">>
    /\ UNCHANGED <<last_paste_time, rec_count>>

\* _undo_last_paste
undo_last_paste ==
    /\ last_paste_time' = None
    /\ notes' = <<"key:cmd+z", "pasteUndone">>
    /\ UNCHANGED <<recording, recording_start_time, cancelled, stream, audio_chunks,
                   rec_count, cancelled_recs>>

\* Mutant of handle_escape: the undo branch is tested before the cancel
\* branch.
handle_escape_UndoFirst ==
    /\ event' = "Escape"
    /\ IF UndoAllowed(last_paste_time, now) THEN undo_last_paste
       ELSE IF recording THEN cancel_recording
       ELSE /\ notes' = <<>>
            /\ UNCHANGED <<recording, recording_start_time, cancelled, last_paste_time,
                           stream, audio_chunks, rec_count, cancelled_recs>>

\* _handle_escape
handle_escape ==
    /\ event' = "Escape"
    /\ IF recording THEN cancel_recording
       ELSE IF UndoAllowed(last_paste_time, now) THEN undo_last_paste
       ELSE /\ notes' = <<>>
            /\ UNCHANGED <<recording, recording_start_time, cancelled, last_paste_time,
                           stream, audio_chunks, rec_count, cancelled_recs>>

\* What _stop_recording reports: recordingStopped, and the duration when a
\* start time was set.
StopNotes(start_time) ==
    IF start_time # None THEN <<"recordingStopped", "recordingDuration">>
    ELSE <<"recordingStopped">>

\* _stop_recording
stop_recording ==
    /\ recording' = FALSE
    /\ recording_start_time' = None
    /\ stream' = None
    /\ notes' = StopNotes(recording_start_time)

\* ------------------------------------------------- the listener's handlers
\* _on_press
KeyPress(key) ==
    LET vk == get_vk(key) IN
    /\ UNCHANGED <<target_vk_codes, transcribe_fn, config, clipboard, now, thread, ui_pc,
                   fed_recs>>
    /\ actor' = 0
    /\ IF vk = None
       THEN /\ UNCHANGED held_vk
            /\ IF key.name = "esc" THEN handle_escape
               ELSE /\ event' = "None"
                    /\ notes' = <<>>
                    /\ UNCHANGED <<recording, recording_start_time, cancelled,
                                   last_paste_time, stream, audio_chunks, rec_count,
                                   cancelled_recs>>
       ELSE IF vk = VK_ESCAPE
       THEN /\ UNCHANGED held_vk
            /\ handle_escape
       ELSE /\ held_vk' = held_vk \cup {vk}
            /\ IF ShouldStart(recording, target_vk_codes, held_vk')
               THEN /\ rec_count < MaxRecordings
                    /\ event' = "StartRecording"
                    /\ \/ start_recording(TRUE)
                       \/ start_recording(FALSE)
               ELSE /\ event' = "None"
                    /\ notes' = <<>>
                    /\ UNCHANGED <<recording, recording_start_time, cancelled,
                                   last_paste_time, stream, audio_chunks, rec_count,
                                   cancelled_recs>>
    /\ app' = Notified(app, notes')

\* threading.Thread(target=self._transcribe_and_type).start() for recording r
Spawn(r) ==
    thread' = [thread EXCEPT ![r] = [NoThread EXCEPT !.pc = "check",
                                                     !.too_short = TooShort(audio_chunks)]]

\* _on_release
KeyRelease(key) ==
    LET vk == get_vk(key) IN
    /\ UNCHANGED <<target_vk_codes, transcribe_fn, config, clipboard, now, ui_pc,
                   last_paste_time, audio_chunks, rec_count, cancelled_recs, fed_recs>>
    /\ actor' = 0
    /\ IF vk = None
       THEN /\ event' = "None"
            /\ notes' = <<>>
            /\ UNCHANGED <<held_vk, recording, recording_start_time, cancelled, stream,
                           thread>>
       ELSE /\ held_vk' = held_vk \ {vk}
            /\ IF ShouldStop(recording, target_vk_codes, held_vk')
               THEN /\ event' = "StopRecording"
                    /\ stop_recording
                    /\ IF cancelled
                       THEN /\ cancelled' = FALSE
                            /\ UNCHANGED thread
                       ELSE /\ Spawn(rec_count)
                            /\ UNCHANGED cancelled
               ELSE /\ event' = "None"
                    /\ notes' = <<>>
                    /\ UNCHANGED <<recording, recording_start_time, cancelled, stream,
                                   thread>>
    /\ app' = Notified(app, notes')

\* ------------------------------------------------------- the audio thread
\* audio_callback of _start_recording, called while the stream runs (the
\* level it reports through on_audio_level is not traced).
AudioCallback ==
    /\ stream # None
    /\ Len(audio_chunks) < MaxChunks
    /\ audio_chunks' = Append(audio_chunks, [rec |-> stream, seq |-> Len(audio_chunks) + 1])
    /\ actor' = 0
    /\ UNCHANGED fed_recs
    /\ event' = "None"
    /\ notes' = <<>>
    /\ UNCHANGED <<recording, recording_start_time, cancelled, last_paste_time, stream,
                   held_vk, target_vk_codes, transcribe_fn, config, clipboard, now,
                   thread, ui_pc, rec_count, cancelled_recs>>
    /\ app' = Notified(app, notes')

\* ------------------------------------- the _transcribe_and_type thread of r
Step(r, rec) == thread' = [thread EXCEPT ![r] = rec]

\* The thread ends: nothing of it is left.
Finish(t) == NoThread

EngineUnchanged ==
    UNCHANGED <<recording, recording_start_time, cancelled, audio_chunks, stream,
                held_vk, target_vk_codes, transcribe_fn, config, now, ui_pc,
                rec_count, cancelled_recs>>

\* A step of thread r is no key event; it is recorded as r's when it did
\* something to the outside.
ThreadHistory(r) ==
    /\ event' = "None"
    /\ actor' = IF notes' = <<>> THEN 0 ELSE r
    /\ app' = Notified(app, notes')

\* line 215: if not self._audio_chunks: return
ThreadCheck(r) ==
    /\ thread[r].pc = "check"
    /\ Step(r, IF audio_chunks = <<>> THEN Finish(thread[r])
               ELSE [thread[r] EXCEPT !.pc = "concat"])
    /\ notes' = <<>>
    /\ EngineUnchanged
    /\ UNCHANGED fed_recs
    /\ UNCHANGED <<last_paste_time, clipboard>>
    /\ ThreadHistory(r)

\* lines 218-225: np.concatenate(self._audio_chunks), the duration test and
\* on_transcription_start. np.concatenate raises on an empty list; that is
\* outside the try block, so the thread ends with the exception.
ThreadConcat(r) ==
    /\ thread[r].pc = "concat"
    /\ IF audio_chunks = <<>>
       THEN /\ Step(r, Finish(thread[r]))
            /\ notes' = <<"raise:concatenate">>
       ELSE IF TooShort(audio_chunks)
       THEN /\ Step(r, Finish(thread[r]))
            /\ notes' = <<"skip:short">>
       ELSE /\ Step(r, [thread[r] EXCEPT !.audio = audio_chunks, !.too_short = FALSE,
                                         !.pc = "transcribe"])
            /\ notes' = <<"transcriptionStarted">>
    /\ EngineUnchanged
    /\ UNCHANGED fed_recs
    /\ UNCHANGED <<last_paste_time, clipboard>>
    /\ ThreadHistory(r)

\* Mutant of WithTrailingSpace: the space is appended whatever the stored
\* option says.
WithTrailingSpace_Always(text, cfg) == text \o " "

\* lines 237-239: the text to paste, under the configuration as loaded now.
WithTrailingSpace(text, cfg) ==
    IF cfg.add_trailing_space THEN text \o " " ELSE text

\* The recordings whose chunks are in an audio buffer.
RecsOf(audio) == {audio[i].rec : i \in 1..Len(audio)}

\* Mutant of OnException: the handler reports the error but the thread does
\* not return, it stays where it is.
OnException_Stuck(t) == t

\* lines 248-252: the except clause reports the error and the thread returns.
OnException(t) == Finish(t)

\* Mutant of OnEmptyText: the empty text is handed to the paste like any
\* other text.
OnEmptyText_Paste(t) == [t EXCEPT !.text = "", !.audio = <<>>, !.pc = "paste_save"]

\* lines 231-235: an empty text is reported and the thread returns.
OnEmptyText(t) == Finish(t)

\* lines 227-239 and 248-252: the backend is absent, or is called with the
\* audio and raises, or returns an empty or a non-empty text. The audio is
\* not read again after the call.
ThreadTranscribe(r) ==
    /\ thread[r].pc = "transcribe"
    /\ \/ /\ ~transcribe_fn
          /\ Step(r, OnException(thread[r]))
          /\ notes' = <<"backend:absent", "error">>
          /\ UNCHANGED fed_recs
       \/ /\ transcribe_fn
          /\ Step(r, OnException(thread[r]))
          /\ notes' = <<"backend:raised", "error">>
          /\ fed_recs' = fed_recs \cup RecsOf(thread[r].audio)
       \/ /\ transcribe_fn
          /\ fed_recs' = fed_recs \cup RecsOf(thread[r].audio)
          /\ \E text \in BackendTexts :
                IF text = ""
                THEN /\ Step(r, OnEmptyText(thread[r]))
                     /\ notes' = <<"backend:empty", "transcriptionDone:">>
                ELSE /\ Step(r, [thread[r] EXCEPT !.text = WithTrailingSpace(text, config),
                                                  !.audio = <<>>,
                                                  !.pc = "paste_save"])
                     /\ notes' = <<"backend:text">>
    /\ EngineUnchanged
    /\ UNCHANGED <<last_paste_time, clipboard>>
    /\ ThreadHistory(r)

\* _auto_type, lines 258-264: old_clip is what pbpaste prints, "" when
\* running it fails.
SaveClipboard(r, pbpaste_ok) ==
    /\ thread[r].pc = "paste_save"
    /\ Step(r, [thread[r] EXCEPT !.old_clip = IF pbpaste_ok THEN clipboard ELSE "",
                                 !.pc = "paste_write"])
    /\ notes' = <<>>
    /\ EngineUnchanged
    /\ UNCHANGED fed_recs
    /\ UNCHANGED <<last_paste_time, clipboard>>

PasteSave(r) == SaveClipboard(r, TRUE) /\ ThreadHistory(r)

PasteSaveFails(r) == SaveClipboard(r, FALSE) /\ ThreadHistory(r)

\* _auto_type, lines 267-269: pbcopy of the text.
PasteWrite(r) ==
    /\ thread[r].pc = "paste_write"
    /\ clipboard' = thread[r].text
    /\ Step(r, [thread[r] EXCEPT !.pc = "paste_key"])
    /\ notes' = <<>>
    /\ EngineUnchanged
    /\ UNCHANGED fed_recs
    /\ UNCHANGED last_paste_time
    /\ ThreadHistory(r)

\* _auto_type, lines 273-280: Cmd+V through Quartz. When a Quartz call raises,
\* the exception leaves _auto_type and is caught at line 248.
PasteKey(r) ==
    /\ thread[r].pc = "paste_key"
    /\ \/ /\ Step(r, [thread[r] EXCEPT !.pc = "paste_restore"])
          /\ notes' = <<"key:cmd+v">>
       \/ /\ Step(r, OnException(thread[r]))
          /\ notes' = <<"raise:keystroke", "error">>
    /\ EngineUnchanged
    /\ UNCHANGED fed_recs
    /\ UNCHANGED <<last_paste_time, clipboard>>
    /\ ThreadHistory(r)

\* _auto_type, lines 283-284: pbcopy of the saved text.
PasteRestore(r) ==
    /\ thread[r].pc = "paste_restore"
    /\ clipboard' = thread[r].old_clip
    /\ Step(r, [thread[r] EXCEPT !.pc = "arm"])
    /\ notes' = <<>>
    /\ EngineUnchanged
    /\ UNCHANGED fed_recs
    /\ UNCHANGED last_paste_time
    /\ ThreadHistory(r)

\* lines 243-246: arm the undo window and report the text.
ThreadArm(r) ==
    /\ thread[r].pc = "arm"
    /\ last_paste_time' = now
    /\ Step(r, Finish(thread[r]))
    /\ notes' = <<"transcriptionDone:" \o thread[r].text>>
    /\ EngineUnchanged
    /\ UNCHANGED fed_recs
    /\ UNCHANGED clipboard
    /\ ThreadHistory(r)

ThreadStep(r) ==
    \/ ThreadCheck(r)
    \/ ThreadConcat(r)
    \/ ThreadTranscribe(r)
    \/ PasteSave(r)
    \/ PasteWrite(r)
    \/ PasteKey(r)
    \/ PasteRestore(r)
    \/ ThreadArm(r)

\* ------------------------------------------------------------ the UI thread
\* _load_hotkey_config, as start() runs it
load_hotkey_config(cfg) == get_hotkey_preset(cfg.hotkey)

\* _change_hotkey up to the test of self._recording in stop(): the new
\* hotkey is saved, then stop() either finds a recording to stop or goes on
\* to the listener.
ChangeHotkey(key) ==
    /\ ui_pc = "idle"
    /\ config' = [config EXCEPT !.hotkey = key]
    /\ ui_pc' = IF recording THEN "stop_recording" ELSE "restart"
    /\ actor' = 0
    /\ UNCHANGED fed_recs
    /\ event' = "None"
    /\ notes' = <<>>
    /\ UNCHANGED <<recording, recording_start_time, cancelled, last_paste_time,
                   audio_chunks, stream, held_vk, target_vk_codes, transcribe_fn,
                   clipboard, now, thread, rec_count, cancelled_recs>>
    /\ app' = Notified(app, notes')

\* stop(), line 81: _stop_recording on the UI thread; no thread is started
\* for the recording.
ChangeHotkeyStop ==
    /\ ui_pc = "stop_recording"
    /\ stop_recording
    /\ ui_pc' = "restart"
    /\ actor' = 0
    /\ UNCHANGED fed_recs
    /\ event' = "None"
    /\ UNCHANGED <<cancelled, last_paste_time, audio_chunks, held_vk, target_vk_codes,
                   transcribe_fn, config, clipboard, now, thread, rec_count,
                   cancelled_recs>>
    /\ app' = Notified(app, notes')

\* Mutant of start_held: the restart forgets the keys that are held.
start_held_Cleared(held) == {}

\* start() makes a new Listener and leaves _held_vk as it is.
start_held(held) == held

\* The rest of _change_hotkey: stop() stops the listener (lines 82-84) and
\* start() reloads the chord and starts a new listener (lines 69-75).
ChangeHotkeyRestart ==
    /\ ui_pc = "restart"
    /\ target_vk_codes' = load_hotkey_config(config)
    /\ held_vk' = start_held(held_vk)
    /\ ui_pc' = "idle"
    /\ actor' = 0
    /\ UNCHANGED fed_recs
    /\ event' = "None"
    /\ notes' = <<"listenerRestarted">>
    /\ UNCHANGED <<recording, recording_start_time, cancelled, last_paste_time,
                   audio_chunks, stream, transcribe_fn, config, clipboard, now,
                   thread, rec_count, cancelled_recs>>
    /\ app' = Notified(app, notes')

\* _toggle_trailing_space
ToggleTrailingSpace ==
    /\ config' = [config EXCEPT !.add_trailing_space = ~@]
    /\ actor' = 0
    /\ UNCHANGED fed_recs
    /\ event' = "None"
    /\ notes' = <<>>
    /\ UNCHANGED <<recording, recording_start_time, cancelled, last_paste_time,
                   audio_chunks, stream, held_vk, target_vk_codes, transcribe_fn,
                   clipboard, now, thread, ui_pc, rec_count, cancelled_recs>>
    /\ app' = Notified(app, notes')

\* ------------------------------------------------------------------- time
Tick ==
    /\ \E t \in Instants : t > now /\ now' = t
    /\ actor' = 0
    /\ UNCHANGED fed_recs
    /\ event' = "None"
    /\ notes' = <<>>
    /\ UNCHANGED <<recording, recording_start_time, cancelled, last_paste_time,
                   audio_chunks, stream, held_vk, target_vk_codes, transcribe_fn,
                   config, clipboard, thread, ui_pc, rec_count, cancelled_recs>>
    /\ app' = Notified(app, notes')

\* The keys of the chords and the Escape key.
ChordKeys == {key \in KeyObjects : key.name \in {"cmd_r", "ctrl_l", "alt_l", "esc"}}

\* The engine under either chord, all at one instant of the clock: the
\* listener, the audio callback and the transcription threads.
Next ==
    \/ \E key \in ChordKeys : KeyPress(key)
    \/ \E key \in ChordKeys : KeyRelease(key)
    \/ AudioCallback
    \/ \E r \in RecIds : ThreadStep(r)

Spec == Init /\ [][Next]_vars

\* The key of the default chord, Escape as a named key and as a key code, and
\* a key _get_vk does not map.
PasteKeys == {key \in KeyObjects : key.name \in {"cmd_r", "esc", "code", "shift_l"}}

InitPaste == Init /\ config.hotkey = "right_cmd"

\* The engine under the default chord with the clock running and a pbpaste
\* that may fail.
NextPaste ==
    \/ \E key \in PasteKeys : KeyPress(key)
    \/ \E key \in PasteKeys : KeyRelease(key)
    \/ AudioCallback
    \/ \E r \in RecIds : ThreadStep(r)
    \/ \E r \in RecIds : PasteSaveFails(r)
    \/ Tick

SpecPaste == InitPaste /\ [][NextPaste]_vars

\* The engine as the application constructs it (transcribe_fn is the
\* model's transcribe) with every key and the hotkey menu of the UI thread.
InitUI == Init /\ transcribe_fn

NextUI ==
    \/ \E key \in KeyObjects : KeyPress(key)
    \/ \E key \in KeyObjects : KeyRelease(key)
    \/ AudioCallback
    \/ \E r \in RecIds : ThreadStep(r)
    \/ \E key \in HotkeyChoices : ChangeHotkey(key)
    \/ ChangeHotkeyStop
    \/ ChangeHotkeyRestart

SpecUI == InitUI /\ [][NextUI]_vars

\* The engine under the default chord while the user toggles the
\* trailing-space option in the menu.
NextToggle ==
    \/ \E key \in {k \in KeyObjects : k.name = "cmd_r"} : KeyPress(key)
    \/ \E key \in {k \in KeyObjects : k.name = "cmd_r"} : KeyRelease(key)
    \/ AudioCallback
    \/ \E r \in RecIds : ThreadStep(r)
    \/ ToggleTrailingSpace

SpecToggle == InitPaste /\ [][NextToggle]_vars

TypeOK ==
    /\ recording \in BOOLEAN
    /\ cancelled \in BOOLEAN
    /\ stream \in RecIds \cup {None}
    /\ rec_count \in 0..MaxRecordings
    /\ now \in Instants
    /\ app \in [rec_note : {"none", "started", "ended"}]

\* ================================================================ claims
\* The number of times x occurs in the sequence q.
Count(q, x) == Cardinality({i \in 1..Len(q) : q[i] = x})

\* The step was a key-up that took a key out of HeldKeys.
Released == held_vk' # held_vk /\ held_vk' \subseteq held_vk

\* The step was a key-down that put a key into HeldKeys.
Pressed == held_vk' # held_vk /\ held_vk \subseteq held_vk'

\* The listener's handler changed nothing of the engine but HeldKeys.
NoFurtherEvent ==
    /\ event' = "None"
    /\ notes' = <<>>
    /\ UNCHANGED <<recording, recording_start_time, cancelled, last_paste_time,
                   audio_chunks, stream, thread, rec_count>>

\* C1: a recording starts only while the session is Idle; a chord press that
\* arrives while a transcription thread of an earlier stop is at the backend
\* or pasting does not start one.
C1_StartOnlyWhenIdle == [][event' = "StartRecording" => Phase = "Idle"]_vars

\* C2: never two transcription threads that were both spawned and have not
\* ended.
C2_OneSubmissionInFlight == Cardinality({r \in RecIds : InFlight(r)}) <= 1

\* C3: the buffer the thread of recording r concatenated is made of the chunks
\* of recording r, in arrival order; no chunk of another recording is in it.
C3_BufferIsOwnRecording ==
    \A r \in RecIds : \A i \in 1..Len(thread[r].audio) :
        thread[r].audio[i] = [rec |-> r, seq |-> i]

\* C4: the backend is never called with audio of a recording that Escape
\* cancelled.
C4_CancelledNeverTranscribed == fed_recs \cap cancelled_recs = {}

\* C5: StartRecording fires only when no recording is active (once per
\* excursion), on an event that takes no key out of HeldKeys and after which
\* HeldKeys contains the chord, and while the session is Idle.
C5_StartOncePerExcursion ==
    [][event' = "StartRecording" =>
          /\ ~recording
          /\ recording'
          /\ held_vk \subseteq held_vk'
          /\ target_vk_codes \subseteq held_vk'
          /\ Phase = "Idle"]_vars

\* C6: StartRecording is edge-triggered: a key-down starts a recording only
\* if HeldKeys did not contain the whole chord before it.
C6_StartEdgeTriggered ==
    [][event' = "StartRecording" => ~(target_vk_codes \subseteq held_vk)]_vars

\* C7: while a recording is active, the release of a chord member stops it,
\* with exactly one recordingStopped; a release while no recording is active
\* (the later releases of the other members) and a press that does not
\* complete the chord trigger nothing.
C7_FirstReleaseStopsOnce ==
    [][/\ (recording /\ Released /\ (held_vk \ held_vk') \subseteq target_vk_codes) =>
            /\ event' = "StopRecording"
            /\ Count(notes', "recordingStopped") = 1
            /\ ~recording'
       /\ (~recording /\ Released) => NoFurtherEvent
       /\ (Pressed /\ ~(target_vk_codes \subseteq held_vk')) => NoFurtherEvent
       /\ (Pressed /\ ~recording /\ target_vk_codes \subseteq held_vk') =>
            event' = "StartRecording"]_vars

\* C7 witness: under the two-key chord one member was released, which stopped
\* the recording, and the other is still held.
C7_Witness ==
    /\ event = "StopRecording"
    /\ Cardinality(target_vk_codes) = 2
    /\ Cardinality(target_vk_codes \cap held_vk) = 1
    /\ ~recording

\* An Escape key-down that found no recording active left everything as it was.
EscapeNoOp ==
    /\ notes' = <<>>
    /\ UNCHANGED <<recording, recording_start_time, cancelled, last_paste_time,
                   audio_chunks, stream, held_vk, clipboard, thread>>

\* C8: an Escape while Idle less than UNDO_WINDOW after the paste sends one
\* undo keystroke and clears the undo state; an Escape UNDO_WINDOW or more
\* after the paste, and an Escape with the undo state cleared (the second one
\* after an undo), is a no-op.
C8_UndoWindow ==
    [][event' = "Escape" =>
          /\ (Phase = "Idle" /\ last_paste_time # None
                /\ now - last_paste_time < UNDO_WINDOW) =>
                /\ Count(notes', "key:cmd+z") = 1
                /\ Count(notes', "pasteUndone") = 1
                /\ last_paste_time' = None
          /\ (~recording /\ last_paste_time # None
                /\ now - last_paste_time >= UNDO_WINDOW) => EscapeNoOp
          /\ (~recording /\ last_paste_time = None) => EscapeNoOp]_vars

\* C8 witness: an undo was sent later than the instant 0, with the clock
\* running, and cleared the undo state.
C8_Witness ==
    /\ event = "Escape"
    /\ Count(notes, "key:cmd+z") = 1
    /\ last_paste_time = None
    /\ now = UNDO_WINDOW - 1

\* C9: when a thread leaves the paste sequence, by its last statement or by an
\* exception of the keystroke synthesis, the clipboard holds what the thread
\* read from it before writing the text.
C9_ClipboardRestored ==
    [][\A r \in RecIds :
          (thread[r].pc \in {"paste_key", "paste_restore"}
             /\ thread'[r].pc \in {"arm", "none"}) =>
          clipboard' = thread[r].old_clip]_vars

\* The step in which the backend was found absent or raised.
BackendFailed(n) == Len(n) > 0 /\ n[1] \in {"backend:absent", "backend:raised"}

\* C10: when the backend is absent or raises, the thread reports exactly one
\* error, synthesizes no keystroke, leaves the clipboard and the undo state
\* alone, and ends: its session is not left Transcribing.
C10_BackendFailure ==
    [][BackendFailed(notes') =>
          /\ actor' \in RecIds
          /\ Transcribing(actor')
          /\ thread'[actor'].pc = "none"
          /\ Count(notes', "error") = 1
          /\ Count(notes', "key:cmd+v") = 0
          /\ UNCHANGED <<last_paste_time, clipboard>>
          /\ (~recording /\ \A r \in RecIds \ {actor'} : ~InFlight(r)) =>
                (Phase = "Transcribing" /\ Phase' = "Idle")]_vars

\* C10 witness: the backend raised, one error was reported and the session is
\* Idle again.
C10_Witness ==
    /\ notes = <<"backend:raised", "error">>
    /\ actor \in RecIds
    /\ Phase = "Idle"

\* C11: the thread of a recording that ended by chord release with less than
\* 0.3 s of captured audio (zero chunks included) never gets past the duration
\* test: it emits no transcriptionStarted and no error and ends without
\* calling the backend.
C11_ShortNeverTranscribed ==
    [][\A r \in RecIds :
          thread[r].too_short =>
             /\ thread'[r].pc \in {"check", "concat", "none"}
             /\ actor' = r =>
                   /\ Count(notes', "transcriptionStarted") = 0
                   /\ Count(notes', "error") = 0]_vars

\* C12: a recording never starts with the cancelled flag set, and the stop by
\* chord release of a recording that Escape did not cancel and that captured
\* at least 0.3 s of audio spawns its transcription thread.
C12_StartClearsCancelled ==
    [][/\ event' = "StartRecording" => ~cancelled'
       /\ (event' = "StopRecording" /\ rec_count \notin cancelled_recs
              /\ ~TooShort(audio_chunks)) =>
            thread'[rec_count].pc = "check"]_vars

\* Thread r is inside _auto_type: between reading the clipboard and writing
\* the saved contents back.
Pasting(r) ==
    thread[r].pc \in {"paste_write", "paste_key", "paste_restore"}

\* C13: no thread enters the paste sequence while another thread is inside
\* it, and Escape synthesizes no undo keystroke while a thread is inside it.
C13_OnePasteOrUndo ==
    [][/\ \A r \in RecIds :
            (thread[r].pc = "paste_save" /\ thread'[r].pc = "paste_write") =>
               \A q \in RecIds \ {r} : ~Pasting(q)
       /\ Count(notes', "key:cmd+z") > 0 =>
            \A r \in RecIds : ~Pasting(r)]_vars

\* C14: when the audio input stream cannot be opened at StartRecording (the
\* start reports no recordingStarted), the engine is not recording and holds
\* no stream afterwards, and exactly one error notification is emitted.
C14_DeviceErrorAborts ==
    [][(event' = "StartRecording" /\ Count(notes', "recordingStarted") = 0) =>
          /\ ~recording'
          /\ stream' = None
          /\ Count(notes', "error") = 1]_vars

\* C15: an Escape while a recording is active cancels it and does nothing
\* else: no undo keystroke, no pasteUndone, the undo state as it was, also
\* within UNDO_WINDOW of a paste. An Escape while no recording is active
\* never cancels: no recordingCancelled, and the cancelled flag, the audio and
\* the stream stay as they were.
C15_CancelOrUndo ==
    [][event' = "Escape" =>
          /\ recording =>
                /\ notes' = <<"recordingCancelled">>
                /\ ~recording'
                /\ cancelled'
                /\ UNCHANGED last_paste_time
          /\ ~recording =>
                /\ Count(notes', "recordingCancelled") = 0
                /\ UNCHANGED <<recording, recording_start_time, cancelled,
                               audio_chunks, stream, cancelled_recs>>]_vars

\* C15 witness: Escape cancelled a recording less than UNDO_WINDOW after a
\* paste, and the undo state is still armed.
C15_Witness ==
    /\ event = "Escape"
    /\ notes = <<"recordingCancelled">>
    /\ last_paste_time # None
    /\ now - last_paste_time < UNDO_WINDOW

\* C16: whenever the session comes back to Idle with no transcription thread
\* left (after a cancel, a too-short recording, a completed, empty or failed
\* transcription), the start time is absent, the cancelled flag is false and
\* the sample list is empty.
C16_FieldsResetAtIdle ==
    [][(Phase # "Idle" /\ Phase' = "Idle" /\ \A r \in RecIds : thread'[r].pc = "none") =>
          /\ recording_start_time' = None
          /\ ~cancelled'
          /\ audio_chunks' = <<>>]_vars

\* C17: when the backend returns the empty text, the thread reports exactly
\* one transcriptionDone with the empty text and ends there: no paste
\* sequence follows, the clipboard and the undo state stay as they were.
C17_EmptyTextNoPaste ==
    [][(Len(notes') > 0 /\ notes'[1] = "backend:empty") =>
          /\ actor' \in RecIds
          /\ notes' = <<"backend:empty", "transcriptionDone:">>
          /\ thread'[actor'].pc = "none"
          /\ UNCHANGED <<clipboard, last_paste_time>>]_vars

\* C17 witness: an empty text was reported while the undo window of an
\* earlier paste was armed.
C17_Witness ==
    /\ notes = <<"backend:empty", "transcriptionDone:">>
    /\ actor \in RecIds
    /\ last_paste_time # None

\* Thread r holds the text it got from the backend: it is in _auto_type or
\* about to arm the undo window.
HasText(r) ==
    thread[r].pc \in {"paste_save", "paste_write", "paste_key", "paste_restore", "arm"}

\* C18: the text a thread pastes and reports carries the appended space iff
\* add_trailing_space is true in the stored configuration in the step in
\* which the backend returns, whatever the option was before; the thread
\* keeps that text, writes it to the clipboard and reports it with
\* transcriptionDone.
C18_TrailingSpaceLateBound ==
    [][\A r \in RecIds :
          /\ (thread[r].pc = "transcribe" /\ HasText(r)') =>
                \E text \in BackendTexts \ {""} :
                    thread'[r].text = IF config.add_trailing_space THEN text \o " "
                                      ELSE text
          /\ (HasText(r) /\ HasText(r)') => thread'[r].text = thread[r].text
          /\ (thread[r].pc = "paste_write" /\ thread'[r].pc = "paste_key") =>
                clipboard' = thread[r].text
          /\ (thread[r].pc = "arm" /\ thread'[r].pc = "none") =>
                notes' = <<"transcriptionDone:" \o thread[r].text>>]_vars

\* C18 witness: a text without the space was reported although the option
\* was on when the engine was constructed: it was switched off before the
\* backend returned.
C18_Witness ==
    /\ notes = <<"transcriptionDone:hi">>
    /\ actor \in RecIds
    /\ ~config.add_trailing_space

\* The Escape key as pynput may deliver it: the named key, or a key code
\* with vk = VK_ESCAPE.
EscapeKeys == {key \in KeyObjects : key.name = "esc" \/ key.vk = VK_ESCAPE}

\* C19: VK_ESCAPE is never in HeldKeys; every Escape key-down goes to the
\* Escape handler and starts or stops no recording through the chord test
\* (it emits no recordingStarted and no recordingStopped and leaves HeldKeys
\* alone); an Escape key-up changes nothing of the engine.
C19_EscapeRouting ==
    [][/\ VK_ESCAPE \notin held_vk'
       /\ \A key \in EscapeKeys :
            KeyPress(key) =>
               /\ event' = "Escape"
               /\ UNCHANGED held_vk
               /\ Count(notes', "recordingStarted") = 0
               /\ Count(notes', "recordingStopped") = 0
       /\ \A key \in EscapeKeys :
            KeyRelease(key) =>
               /\ event' = "None"
               /\ notes' = <<>>
               /\ UNCHANGED <<recording, held_vk, stream, thread>>]_vars

\* C20: HeldKeys changes only in a key-down step, by the key that went down,
\* or in a key-up step, by the key that went up. The steps of the hotkey
\* change (stop(), _stop_recording on the UI thread, start()), a cancel, an
\* undo and a stop of the recording by chord release take nothing else out
\* of it.
C20_HeldKeysFrame ==
    [][/\ held_vk' # held_vk =>
            \E key \in KeyObjects :
               \/ KeyPress(key) /\ held_vk' = held_vk \cup {get_vk(key)}
               \/ KeyRelease(key) /\ held_vk' = held_vk \ {get_vk(key)}
       /\ ((\E key \in HotkeyChoices : ChangeHotkey(key))
              \/ ChangeHotkeyStop \/ ChangeHotkeyRestart) => UNCHANGED held_vk
       /\ (Count(notes', "recordingCancelled") > 0 \/ Count(notes', "pasteUndone") > 0) =>
            UNCHANGED held_vk
       /\ Count(notes', "recordingStopped") > 0 =>
            Cardinality(held_vk \ held_vk') <= 1]_vars

\* C20 witness: the listener was restarted under a new chord while a key was
\* held, and the key is still in HeldKeys.
C20_Witness ==
    /\ notes = <<"listenerRestarted">>
    /\ held_vk # {}
    /\ ~(target_vk_codes \subseteq held_vk)

\* C21: the input stream is held exactly while a recording is active: after
\* every step the engine holds a stream iff it is recording, and a chunk is
\* appended to the sample list only while it is recording.
C21_StreamIffRecording ==
    [][/\ recording' <=> stream' # None
       /\ Len(audio_chunks') > Len(audio_chunks) => recording]_vars

\* The number of recordingStopped and recordingCancelled in the sequence n.
Ends(n) == Count(n, "recordingStopped") + Count(n, "recordingCancelled")

\* C22: the notifications of a recording are paired: a recordingStarted is
\* never sent while the last recordingStarted has had no recordingStopped or
\* recordingCancelled, and a recordingStopped or recordingCancelled is sent
\* alone and never after another one without a recordingStarted in between,
\* whichever thread (the listener, or the UI thread in stop()) sends it.
C22_StartStopPaired ==
    [][/\ Count(notes', "recordingStarted") > 0 => app.rec_note # "started"
       /\ Ends(notes') > 0 =>
            /\ Ends(notes') = 1
            /\ app.rec_note # "ended"]_vars

\* The chord workflow with the scheduling of the daemon threads: a
\* _transcribe_and_type thread that has been started is run to its end by the
\* interpreter, whatever the listener does; the key events are the user's and
\* nothing forces them.
SpecLive == Init /\ [][Next]_vars /\ \A r \in RecIds : WF_vars(ThreadStep(r))

\* C23: the overlay shown on recordingStarted is eventually hidden once the
\* recording has ended: every recordingStopped is eventually followed by a
\* recordingCancelled, transcriptionDone or error, the notifications on which
\* the application hides the overlay (a recordingCancelled hides it itself).
C23_OverlayEventuallyHidden ==
    (Count(notes, "recordingStopped") > 0)
        ~> (\E i \in 1..Len(notes) : HidesOverlay(notes[i]))

====
